---- MODULE Spec2Model ----
(***************************************************************************)
(* Model of covmatrix.py: the finite-difference Hessian estimator          *)
(* (calc_hess, calc_partial_ii, calc_partial_ij), the input normalizer     *)
(* (_get_x_and_h) and the covariance deriver (calc_cov).                    *)
(*                                                                         *)
(* Numbers are exact rationals <<n, d>> in lowest terms with d > 0, so      *)
(* floating-point rounding is not modelled; what is modelled is the order   *)
(* of the stores and evaluations, numpy's dtype cast on an array store,     *)
(* array aliasing, and the propagation of exceptions.  Division is true     *)
(* division; the steps explored are nonzero, so no division by zero occurs. *)
(* array(x, copy=False) copies only when it must.  linalg.inv is numpy's:   *)
(* it is modelled as the exact inverse, raising LinAlgError exactly when    *)
(* the determinant is zero.  Python indices are kept 0-based (i, j);        *)
(* sequences are 1-based, so x[i] is data[i + 1].                           *)
(***************************************************************************)
EXTENDS Integers, Sequences, FiniteSets, TLC

\* largest dimension of a point that is explored
MaxN == 3

\* no exception pending / no value
NoExc == [type |-> "None"]
NoVal == <<>>

----------------------------------------------------------------------------
(* Exact rational arithmetic                                               *)

Abs(a) == IF a < 0 THEN -a ELSE a

RECURSIVE Gcd(_, _)
Gcd(a, b) == IF b = 0 THEN a ELSE Gcd(b, a % b)

\* the rational n/d (d # 0) in lowest terms with a positive denominator
Rat(n, d) ==
    LET g == Gcd(Abs(n), Abs(d))
        s == IF d < 0 THEN -1 ELSE 1
    IN  <<(s * n) \div g, (s * d) \div g>>

Zero == Rat(0, 1)
\* sums and products cancel common factors first, to keep the integers small
RAdd(a, b) ==
    LET g == Gcd(a[2], b[2])
    IN  Rat(a[1] * (b[2] \div g) + b[1] * (a[2] \div g), (a[2] \div g) * b[2])
RNeg(a)    == <<-a[1], a[2]>>
RSub(a, b) == RAdd(a, RNeg(b))
RMul(a, b) ==
    LET g == Gcd(Abs(a[1]), b[2])
        k == Gcd(Abs(b[1]), a[2])
    IN  Rat((a[1] \div g) * (b[1] \div k), (a[2] \div k) * (b[2] \div g))
\* b # 0
RDiv(a, b) == RMul(a, IF b[1] < 0 THEN <<-b[2], -b[1]>> ELSE <<b[2], b[1]>>)

\* C cast of a float to an integer: truncation toward zero
Trunc(a) ==
    IF a[1] >= 0 THEN Rat(a[1] \div a[2], 1)
    ELSE Rat(-((-a[1]) \div a[2]), 1)

RECURSIVE RSum(_)
RSum(s) == IF s = <<>> THEN Zero ELSE RAdd(Head(s), RSum(Tail(s)))

----------------------------------------------------------------------------
(* numpy arrays: [dtype, data]                                             *)

DTypes == {"int", "float"}

Array(dtype, data) == [dtype |-> dtype, data |-> data]

\* a[idx] = v on an array of a's dtype: an int64 array stores the C cast
StoreCast(dtype, v) == IF dtype = "int" THEN Trunc(v) ELSE v

SetItem(a, idx, v) ==
    [a EXCEPT !.data[idx + 1] = StoreCast(a.dtype, v)]

GetItem(a, idx) == a.data[idx + 1]

----------------------------------------------------------------------------
(* Objective functions func(x) supplied by the caller: pure oracles         *)

Funcs == {"const", "quad", "cube"}

Sq(a) == RMul(a, a)

\* sum_k k * p_k^2  +  sum_{k<l} p_k * p_l
Quad(pt) ==
    LET n == Len(pt)
        RECURSIVE Diag(_)
        Diag(k) == IF k > n THEN Zero
                   ELSE RAdd(RMul(Rat(k, 1), Sq(pt[k])), Diag(k + 1))
        RECURSIVE Cross(_, _)
        Cross(k, l) == IF k > n THEN Zero
                       ELSE IF l > n THEN Cross(k + 1, k + 2)
                       ELSE RAdd(RMul(pt[k], pt[l]), Cross(k, l + 1))
    IN  RAdd(Diag(1), Cross(1, 2))

\* (sum_k p_k)^3
Cube(pt) == LET t == RSum(pt) IN RMul(t, Sq(t))

func(name, pt) ==
    CASE name = "const" -> Rat(3, 1)
      [] name = "quad"  -> Quad(pt)
      [] name = "cube"  -> Cube(pt)

FuncError == [type |-> "FuncError"]

\* a call func(x) inside calc_partial_ii / calc_partial_ij: there is no
\* try/except, so an exception of the objective leaves the call site as it is
CallFuncSwallow(name, pt, fails) ==
    [ok |-> TRUE, val |-> IF fails THEN Zero ELSE func(name, pt), exc |-> NoExc]

CallFunc(name, pt, fails) ==
    IF fails THEN [ok |-> FALSE, val |-> NoVal, exc |-> FuncError]
    ELSE [ok |-> TRUE, val |-> func(name, pt), exc |-> NoExc]

----------------------------------------------------------------------------
(* _get_x_and_h                                                            *)

\* array(x, ndmin=1, copy=False): an ndarray is passed through (aliased),
\* a bare scalar becomes a fresh 1-element array
XRef(xarg) == IF xarg.kind = "array" THEN "arg" ELSE "norm"

\* zeros(ndim) + h
BroadcastFirst(ndim, s) == [k \in 1..ndim |-> IF k = 1 THEN s ELSE RAdd(s, s)]

Broadcast(ndim, s) == [k \in 1..ndim |-> s]

\* h.size != x.size
SizeMismatchGreater(hsize, xsize) == hsize > xsize

SizeMismatch(hsize, xsize) == hsize # xsize

DimError(hsize, xsize) ==
    [type |-> "ValueError", hsize |-> hsize, xsize |-> xsize]

GetXAndH(xarg, harg) ==
    LET ndim == Len(xarg.data)
    IN  IF harg.kind = "scalar"
        THEN [ok |-> TRUE, ndim |-> ndim, h |-> Broadcast(ndim, harg.val),
              exc |-> NoExc]
        ELSE IF SizeMismatch(Len(harg.data), ndim)
             THEN [ok |-> FALSE, ndim |-> ndim, h |-> <<>>,
                   exc |-> DimError(Len(harg.data), ndim)]
             ELSE [ok |-> TRUE, ndim |-> ndim, h |-> harg.data, exc |-> NoExc]

----------------------------------------------------------------------------
(* Stencils and the fill loop of calc_hess                                  *)

\* zeros((ndim, ndim))
Zeros(ndim) == [r \in 1..ndim |-> [c \in 1..ndim |-> Zero]]

\* x = xin.copy()
CopyRefAlias(ref) == ref

CopyRef(ref) == "scratch"

\* num = f1 - 2*f2 + f3 ; denom = h**2 ; deriv = num/denom
DerivIISingle(f1, f2, f3, h) == RDiv(RAdd(RSub(f1, f2), f3), Sq(h))

DerivII(f1, f2, f3, h) ==
    RDiv(RAdd(RSub(f1, RMul(Rat(2, 1), f2)), f3), Sq(h))

\* num = f1 - f2 - f3 + f4 ; denom = 4.*h*k ; deriv = num/denom
DerivIJ(f1, f2, f3, f4, h, k) ==
    RDiv(RAdd(RSub(RSub(f1, f2), f3), f4), RMul(Rat(4, 1), RMul(h, k)))

\* hess[i,i] = ...
StoreII(m, ii, v) == [m EXCEPT ![ii + 1][ii + 1] = v]

\* hess[i,j] = ... ; hess[j,i] = hess[i,j]
StoreIJNoMirror(m, ii, jj, v) == [m EXCEPT ![ii + 1][jj + 1] = v]

StoreIJ(m, ii, jj, v) ==
    LET m1 == [m EXCEPT ![ii + 1][jj + 1] = v]
    IN  [m1 EXCEPT ![jj + 1][ii + 1] = m1[ii + 1][jj + 1]]

\* for j in range(i, ndim): the first j of row i
JStartZero(ii) == 0

JStart(ii) == ii

\* the index pair the double loop visits after (ii, jj)
NextIndex(ii, jj, ndim) ==
    IF jj + 1 < ndim THEN <<ii, jj + 1>> ELSE <<ii + 1, JStart(ii + 1)>>

\* where control goes at the index pair (ii, jj)
PcAt(ii, jj, ndim) ==
    IF ii >= ndim THEN "ret" ELSE IF ii = jj THEN "ii1" ELSE "ij1"

----------------------------------------------------------------------------
(* linalg.inv and the negation of calc_cov                                  *)

\* m without row r and column c
Minor(m, r, c) ==
    LET n == Len(m)
        Skip(k, d) == IF k < d THEN k ELSE k + 1
    IN  [a \in 1..(n - 1) |-> [b \in 1..(n - 1) |-> m[Skip(a, r)][Skip(b, c)]]]

Sign(k) == IF k % 2 = 0 THEN Rat(1, 1) ELSE Rat(-1, 1)

RECURSIVE Det(_)
Det(m) ==
    IF Len(m) = 0 THEN Rat(1, 1)
    ELSE LET RECURSIVE Expand(_)
             Expand(c) ==
                 IF c > Len(m) THEN Zero
                 ELSE RAdd(RMul(RMul(Sign(1 + c), m[1][c]), Det(Minor(m, 1, c))),
                           Expand(c + 1))
         IN  Expand(1)

SingularError == [type |-> "LinAlgError"]

\* the inverse of a square matrix; a singular matrix raises LinAlgError and
\* the 0x0 matrix inverts to the 0x0 matrix
Inv(m) ==
    LET n == Len(m)
        d == Det(m)
    IN  IF d = Zero THEN [ok |-> FALSE, val |-> NoVal, exc |-> SingularError]
        ELSE [ok |-> TRUE, exc |-> NoExc,
              val |-> [r \in 1..n |-> [c \in 1..n |->
                         RDiv(RMul(Sign(r + c), Det(Minor(m, c, r))), d)]]]

NegM(m) == [r \in 1..Len(m) |-> [c \in 1..Len(m[r]) |-> RNeg(m[r][c])]]

\* cov = -linalg.inv(hess)
CovOfNoNeg(m) == Inv(m)

CovOf(m) ==
    LET r == Inv(m)
    IN  IF r.ok THEN [ok |-> TRUE, exc |-> NoExc, val |-> NegM(r.val)] ELSE r

----------------------------------------------------------------------------
(* State                                                                   *)

VARIABLES
    inp,      \* the call: [entry, func, x, h] as the caller passed them
    heap,     \* the arrays: arg (the caller's x), norm (array(x) of a bare
              \* scalar), scratch (the copy made by a stencil routine)
    xref,     \* calc_hess: which array the local x names
    hloc,     \* calc_hess: the local h, one step per dimension
    ndim,     \* calc_hess: x.size
    hess,     \* calc_hess / calc_cov: the matrix being filled
    i, j,     \* calc_hess: the loop indices (0-based)
    pc,       \* the statement control is at
    scr,      \* calc_partial_*: which array the local x names
    fv,       \* calc_partial_*: the values f1, f2, ... obtained so far
    log,      \* every call of func so far: the point passed, whether it raised
    invLog,   \* every matrix passed to linalg.inv so far
    exc,      \* the exception that reached the caller
    result,   \* the matrix returned to the caller
    prev      \* the outcome of the caller's previous call

vars == <<inp, heap, xref, hloc, ndim, hess, i, j, pc, scr, fv, log, invLog,
          exc, result, prev>>

NoArr == [dtype |-> "none", data |-> <<>>]
NoResult == [has |-> FALSE, val |-> NoVal]
NoPrev == [valid |-> FALSE]

\* the point values and the step values explored
XVals(dtype) ==
    IF dtype = "int" THEN {Rat(0, 1), Rat(1, 1)} ELSE {Rat(1, 2), Rat(1, 1)}

HVals == {Rat(1, 2), Rat(1, 1)}

\* x: a bare scalar or an ndarray of 0..MaxN coordinates
XArgs ==
    UNION {{[kind |-> "scalar", dtype |-> d, data |-> <<v>>] : v \in XVals(d)}
           \cup UNION {{[kind |-> "array", dtype |-> d, data |-> a] :
                            a \in [1..n -> XVals(d)]} : n \in 0..MaxN}
           : d \in DTypes}

\* h: a scalar, a sequence of n steps (v, w, v, ...), or a sequence of
\* another length
HArgs(n) ==
    {[kind |-> "scalar", val |-> v, data |-> <<>>] :
        v \in HVals \cup {Rat(-1, 2)}}
    \cup {[kind |-> "seq", val |-> Zero,
           data |-> [k \in 1..n |-> IF k % 2 = 1 THEN v ELSE w]] :
            v \in HVals, w \in HVals}
    \cup {[kind |-> "seq", val |-> Zero, data |-> [k \in 1..m |-> v]] :
            m \in {n - 1, n + 1} \cap Nat, v \in HVals}

Inputs ==
    UNION {{[entry |-> e, func |-> f, x |-> x, h |-> h] :
               e \in {"hess", "cov"}, f \in Funcs, h \in HArgs(Len(x.data))}
           : x \in XArgs}

\* the state at the start of a call with arguments a, the caller's array
\* being in the state arr
Enter(a, arr) ==
    /\ inp' = a
    /\ heap' = [arg |-> arr, norm |-> NoArr, scratch |-> NoArr]
    /\ xref' = "none"
    /\ hloc' = <<>>
    /\ ndim' = 0
    /\ hess' = <<>>
    /\ i' = 0
    /\ j' = 0
    /\ pc' = "call"
    /\ scr' = "none"
    /\ fv' = <<>>
    /\ log' = <<>>
    /\ invLog' = <<>>
    /\ exc' = NoExc
    /\ result' = NoResult

Init ==
    /\ inp \in Inputs
    /\ heap = [arg |-> Array(inp.x.dtype, inp.x.data), norm |-> NoArr,
               scratch |-> NoArr]
    /\ xref = "none"
    /\ hloc = <<>>
    /\ ndim = 0
    /\ hess = <<>>
    /\ i = 0
    /\ j = 0
    /\ pc = "call"
    /\ scr = "none"
    /\ fv = <<>>
    /\ log = <<>>
    /\ invLog = <<>>
    /\ exc = NoExc
    /\ result = NoResult
    /\ prev = NoPrev

----------------------------------------------------------------------------
(* calc_hess                                                               *)

\* x, h = _get_x_and_h(x, h) ; ndim = x.size ; hess = zeros((ndim, ndim)) ;
\* the loops are entered
Normalize ==
    /\ pc = "call"
    /\ LET r == GetXAndH(inp.x, inp.h)
       IN  IF r.ok
           THEN /\ xref' = XRef(inp.x)
                /\ heap' = IF inp.x.kind = "scalar"
                           THEN [heap EXCEPT !.norm = Array(inp.x.dtype, inp.x.data)]
                           ELSE heap
                /\ hloc' = r.h
                /\ ndim' = r.ndim
                /\ hess' = Zeros(r.ndim)
                /\ i' = 0
                /\ j' = JStart(0)
                /\ pc' = PcAt(0, JStart(0), r.ndim)
                /\ exc' = exc
           ELSE /\ pc' = "raised"
                /\ exc' = r.exc
                /\ UNCHANGED <<xref, heap, hloc, ndim, hess, i, j>>
    /\ UNCHANGED <<inp, scr, fv, log, invLog, result, prev>>

\* whether a call func(pt) may raise: the objective is an oracle, so a point it
\* returned a value for during the caller's previous call does not raise now
FailChoices(pt) ==
    IF prev.valid /\ \E k \in 1..Len(prev.log) : prev.log[k].pt = pt
    THEN {FALSE} ELSE BOOLEAN

\* x = xin.copy()
CopyIn(hp, ref) == [hp EXCEPT ![CopyRef(ref)] = hp[ref]]

\* x[idx] = xin[idx] + d on the array named s
Perturb(hp, s, ref, idx, d) ==
    [hp EXCEPT ![s] = SetItem(hp[s], idx, RAdd(GetItem(hp[ref], idx), d))]

\* one call func(x): the log grows; a value is kept and control moves on, or
\* the exception unwinds calc_partial_*, calc_hess and calc_cov
Evaluate(pt, fails, okpc) ==
    LET out == CallFunc(inp.func, pt, fails)
    IN  /\ log' = Append(log, [pt |-> pt, raised |-> fails])
        /\ IF out.ok
           THEN /\ fv' = Append(fv, out.val)
                /\ pc' = okpc
                /\ exc' = exc
           ELSE /\ fv' = fv
                /\ pc' = "raised"
                /\ exc' = out.exc

\* the last call func(x) of a stencil: the entry is stored and the loop moves on
EvaluateLast(pt, fails, ii, jj) ==
    LET out == CallFunc(inp.func, pt, fails)
        vals == Append(fv, out.val)
        nxt == NextIndex(i, j, ndim)
    IN  /\ log' = Append(log, [pt |-> pt, raised |-> fails])
        /\ IF out.ok
           THEN /\ fv' = <<>>
                /\ hess' = IF ii = jj
                           THEN StoreII(hess, ii,
                                    DerivII(vals[1], vals[2], vals[3], hloc[ii + 1]))
                           ELSE StoreIJ(hess, ii, jj,
                                    DerivIJ(vals[1], vals[2], vals[3], vals[4],
                                            hloc[ii + 1], hloc[jj + 1]))
                /\ i' = nxt[1]
                /\ j' = nxt[2]
                /\ pc' = PcAt(nxt[1], nxt[2], ndim)
                /\ exc' = exc
           ELSE /\ fv' = fv
                /\ pc' = "raised"
                /\ exc' = out.exc
                /\ UNCHANGED <<hess, i, j>>

\* calc_partial_ii: x = xin.copy() ; x[i] = xin[i] + h ; f1 = func(x)
PartialII_1 ==
    /\ pc = "ii1"
    /\ LET s == CopyRef(xref)
           hp == Perturb(CopyIn(heap, xref), s, xref, i, hloc[i + 1])
       IN  \E fails \in FailChoices(hp[s].data) :
             /\ scr' = s
             /\ heap' = hp
             /\ Evaluate(hp[s].data, fails, "ii2")
    /\ UNCHANGED <<inp, xref, hloc, ndim, hess, i, j, invLog, result, prev>>

\* calc_partial_ii: f2 = func(xin)
PartialII_2 ==
    /\ pc = "ii2"
    /\ \E fails \in FailChoices(heap[xref].data) :
         Evaluate(heap[xref].data, fails, "ii3")
    /\ UNCHANGED <<inp, heap, xref, hloc, ndim, hess, i, j, scr, invLog,
                   result, prev>>

\* calc_partial_ii: x[i] = xin[i] - h ; f3 = func(x) ; deriv ; hess[i,i] = deriv
PartialII_3 ==
    /\ pc = "ii3"
    /\ LET hp == Perturb(heap, scr, xref, i, RNeg(hloc[i + 1]))
       IN  \E fails \in FailChoices(hp[scr].data) :
             /\ heap' = hp
             /\ EvaluateLast(hp[scr].data, fails, i, i)
    /\ UNCHANGED <<inp, xref, hloc, ndim, scr, invLog, result, prev>>

\* calc_partial_ij: x = xin.copy() ; x[i] = xin[i] + h ; x[j] = xin[j] + k ;
\* f1 = func(x)
PartialIJ_1 ==
    /\ pc = "ij1"
    /\ LET s == CopyRef(xref)
           hp1 == Perturb(CopyIn(heap, xref), s, xref, i, hloc[i + 1])
           hp == Perturb(hp1, s, xref, j, hloc[j + 1])
       IN  \E fails \in FailChoices(hp[s].data) :
             /\ scr' = s
             /\ heap' = hp
             /\ Evaluate(hp[s].data, fails, "ij2")
    /\ UNCHANGED <<inp, xref, hloc, ndim, hess, i, j, invLog, result, prev>>

\* calc_partial_ij: x[j] = xin[j] - k ; f2 = func(x)
PartialIJ_2 ==
    /\ pc = "ij2"
    /\ LET hp == Perturb(heap, scr, xref, j, RNeg(hloc[j + 1]))
       IN  \E fails \in FailChoices(hp[scr].data) :
             /\ heap' = hp
             /\ Evaluate(hp[scr].data, fails, "ij3")
    /\ UNCHANGED <<inp, xref, hloc, ndim, hess, i, j, scr, invLog, result, prev>>

\* calc_partial_ij: x[i] = xin[i] - h ; x[j] = xin[j] + k ; f3 = func(x)
PartialIJ_3 ==
    /\ pc = "ij3"
    /\ LET hp1 == Perturb(heap, scr, xref, i, RNeg(hloc[i + 1]))
           hp == Perturb(hp1, scr, xref, j, hloc[j + 1])
       IN  \E fails \in FailChoices(hp[scr].data) :
             /\ heap' = hp
             /\ Evaluate(hp[scr].data, fails, "ij4")
    /\ UNCHANGED <<inp, xref, hloc, ndim, hess, i, j, scr, invLog, result, prev>>

\* calc_partial_ij: x[j] = xin[j] - k ; f4 = func(x) ; deriv ;
\* hess[i,j] = deriv ; hess[j,i] = hess[i,j]
PartialIJ_4 ==
    /\ pc = "ij4"
    /\ LET hp == Perturb(heap, scr, xref, j, RNeg(hloc[j + 1]))
       IN  \E fails \in FailChoices(hp[scr].data) :
             /\ heap' = hp
             /\ EvaluateLast(hp[scr].data, fails, i, j)
    /\ UNCHANGED <<inp, xref, hloc, ndim, scr, invLog, result, prev>>

\* return hess: to the caller, or back into calc_cov
HessReturn ==
    /\ pc = "ret"
    /\ IF inp.entry = "hess"
       THEN /\ result' = [has |-> TRUE, val |-> hess]
            /\ pc' = "done"
       ELSE /\ result' = result
            /\ pc' = "inv"
    /\ UNCHANGED <<inp, heap, xref, hloc, ndim, hess, i, j, scr, fv, log,
                   invLog, exc, prev>>

----------------------------------------------------------------------------
(* calc_cov                                                                *)

\* cov = -linalg.inv(hess) ; return cov
CovInvert ==
    /\ pc = "inv"
    /\ invLog' = Append(invLog, hess)
    /\ LET r == CovOf(hess)
       IN  IF r.ok
           THEN /\ result' = [has |-> TRUE, val |-> r.val]
                /\ pc' = "done"
                /\ exc' = exc
           ELSE /\ result' = result
                /\ pc' = "raised"
                /\ exc' = r.exc
    /\ UNCHANGED <<inp, heap, xref, hloc, ndim, hess, i, j, scr, fv, log, prev>>

----------------------------------------------------------------------------
(* The caller                                                              *)

Finished == pc \in {"done", "raised"}

\* the objective raised during the current call
FuncRaised == \E k \in 1..Len(log) : log[k].raised

Snapshot(kind) ==
    [valid |-> TRUE, kind |-> kind, inp |-> inp, pc |-> pc, result |-> result,
     exc |-> exc, log |-> log, invLog |-> invLog]

\* after a call with a scalar step s in which the objective did not raise, the
\* caller calls again with the
\* explicit sequence [s, ..., s] of one copy per coordinate of x
CallAgainWithSequence ==
    /\ Finished
    /\ ~FuncRaised
    /\ ~prev.valid
    /\ inp.h.kind = "scalar"
    /\ prev' = Snapshot("sequence")
    /\ Enter([inp EXCEPT !.h = [kind |-> "seq", val |-> Zero,
                                data |-> [k \in 1..Len(inp.x.data) |-> inp.h.val]]],
             heap.arg)

\* after a calc_cov in which the objective did not raise, the caller calls
\* calc_hess with the same arguments
CallAgainHess ==
    /\ Finished
    /\ ~FuncRaised
    /\ ~prev.valid
    /\ inp.entry = "cov"
    /\ prev' = Snapshot("hess")
    /\ Enter([inp EXCEPT !.entry = "hess"], heap.arg)

Next ==
    \/ Normalize
    \/ PartialII_1
    \/ PartialII_2
    \/ PartialII_3
    \/ PartialIJ_1
    \/ PartialIJ_2
    \/ PartialIJ_3
    \/ PartialIJ_4
    \/ HessReturn
    \/ CovInvert
    \/ CallAgainWithSequence
    \/ CallAgainHess

Spec == Init /\ [][Next]_vars

----------------------------------------------------------------------------
(* Vocabulary of the properties                                            *)

\* the caller's point and the number of its coordinates
X0 == inp.x.data
N0 == Len(inp.x.data)

\* the h argument is a sequence whose length is not the dimension of x
Mismatch == inp.h.kind = "seq" /\ Len(inp.h.data) # N0

\* the step of coordinate a (0-based) that the caller asked for
StepOf(a) == IF inp.h.kind = "scalar" THEN inp.h.val ELSE inp.h.data[a + 1]

\* number of calls of func made before the stencil of the upper-triangle
\* entry (a, b), a <= b < n, starts: 3 per diagonal entry and 4 per pair
EvalsBefore(a, b, n) ==
    (3 * a + 4 * a * (n - 1) - 2 * a * (a - 1))
    + (IF b > a THEN 3 + 4 * (b - a - 1) ELSE 0)

\* calls of func a successful calc_hess makes on a point of dimension n
TotalEvals(n) == 3 * n + 4 * ((n * (n - 1)) \div 2)

\* the caller's point moved by da along coordinate a and by db along b
Moved(a, da, b, db) ==
    [k \in 1..N0 |-> RAdd(X0[k], RAdd(IF k = a + 1 THEN da ELSE Zero,
                                      IF k = b + 1 THEN db ELSE Zero))]

\* the value of func at the point of the k-th call
LogVal(k) == func(inp.func, log[k].pt)

\* the stencil value of the upper-triangle entry (a, b) from the calls made
StencilFromLog(a, b) ==
    LET o == EvalsBefore(a, b, ndim)
    IN  IF a = b
        THEN DerivII(LogVal(o + 1), LogVal(o + 2), LogVal(o + 3), StepOf(a))
        ELSE DerivIJ(LogVal(o + 1), LogVal(o + 2), LogVal(o + 3), LogVal(o + 4),
                     StepOf(a), StepOf(b))

\* calc_hess has returned its matrix (to the caller or to calc_cov)
HessReturned == pc = "inv" \/ (pc = "done" /\ inp.entry = "hess")

MatMul(a, b) ==
    [r \in 1..Len(a) |-> [c \in 1..Len(a) |->
        RSum([k \in 1..Len(a) |-> RMul(a[r][k], b[k][c])])]]

NegIdentity(n) ==
    [r \in 1..n |-> [c \in 1..n |-> IF r = c THEN Rat(-1, 1) ELSE Zero]]

----------------------------------------------------------------------------
(* Properties                                                              *)

\* C1: when calc_hess returns, the matrix is exactly symmetric, H[a][b] =
\* H[b][a] for all a, b, and every upper-triangle entry holds the stencil
\* value of the evaluations made for it (so its mirror holds it too).
C1_Symmetry ==
    HessReturned =>
        /\ Len(hess) = N0
        /\ \A a \in 0..(ndim - 1) : \A b \in 0..(ndim - 1) :
             /\ hess[a + 1][b + 1] = hess[b + 1][a + 1]
             /\ a <= b => hess[a + 1][b + 1] = StencilFromLog(a, b)
        /\ pc = "done" => result.val = hess

C1_Witness ==
    /\ pc = "done" /\ inp.entry = "hess" /\ ndim = 3
    /\ result.val[3][1] # Zero
    /\ result.val[3][1] # result.val[2][1]

\* C2: calc_cov returns the negated inverse of exactly the matrix calc_hess
\* returns for the same arguments: the inversion is invoked once, on the
\* assembled Hessian, result * H = -I, and calc_cov calls func exactly as
\* calc_hess does.
C2_CovIsNegInverse ==
    /\ (pc = "done" /\ inp.entry = "cov") =>
          /\ invLog = <<hess>>
          /\ MatMul(result.val, hess) = NegIdentity(N0)
          /\ Len(log) = TotalEvals(N0)
    /\ (prev.valid /\ prev.kind = "hess" /\ pc = "done") =>
          /\ prev.invLog = <<result.val>>
          /\ prev.log = log
          /\ prev.pc = "done" =>
                MatMul(prev.result.val, result.val) = NegIdentity(N0)

C2_Witness ==
    /\ prev.valid /\ prev.kind = "hess" /\ pc = "done" /\ prev.pc = "done"
    /\ ndim = 3
    /\ prev.result.val[1][2] # Zero

\* C3: a step sequence whose length differs from the dimension of the point
\* makes calc_hess and calc_cov raise the normalizer's error, which carries
\* both sizes, before any evaluation and without a result.
C3_DimensionMismatch ==
    (Mismatch /\ pc # "call") =>
        /\ pc = "raised"
        /\ exc = [type |-> "ValueError", hsize |-> Len(inp.h.data), xsize |-> N0]
        /\ log = <<>>
        /\ ~result.has

C3_Witness ==
    /\ pc = "raised" /\ exc.type = "ValueError" /\ inp.entry = "cov"
    /\ Len(inp.h.data) = N0 - 1

\* C4: a call with the scalar step s and the call with the sequence of N
\* copies of s pass the same points to func in the same order and end the
\* same way with the same matrix.
C4_Broadcast ==
    (prev.valid /\ prev.kind = "sequence" /\ Finished) =>
        /\ log = prev.log
        /\ pc = prev.pc
        /\ result = prev.result
        /\ exc = prev.exc

C4_Witness ==
    /\ prev.valid /\ prev.kind = "sequence" /\ pc = "done" /\ ndim = 3
    /\ result.val[1][2] # Zero

\* C5: the caller's point is never written: at every step the caller's array
\* and the array calc_hess names x hold the values of call time, and the
\* stencil routines store only into their own copy.
C5_PointNotMutated ==
    /\ heap.arg.data = X0
    /\ xref # "none" => heap[xref].data = X0
    /\ scr # "none" => scr = "scratch"

C5_Witness ==
    /\ Finished /\ scr = "scratch"
    /\ heap.scratch.data # heap.arg.data
    /\ inp.x.kind = "array"

\* C6 as stated: for a constant objective, any point and nonzero steps,
\* calc_cov fails with the singularity error of the inversion and never
\* returns a matrix.
C6_Original ==
    (inp.func = "const" /\ inp.entry = "cov" /\ Finished /\ ~FuncRaised
        /\ ~Mismatch) =>
        (pc = "raised" /\ exc = SingularError)

\* C6 amended: for a constant objective, a point of dimension N >= 1 and
\* nonzero steps, calc_hess yields the all-zero N x N matrix and calc_cov
\* fails with the singularity error of the inversion, returning no matrix.
C6_ConstantSingular ==
    /\ (inp.func = "const" /\ xref # "none") => hess = Zeros(N0)
    /\ (inp.func = "const" /\ pc = "done" /\ inp.entry = "hess") =>
          result.val = Zeros(N0)
    /\ (inp.func = "const" /\ inp.entry = "cov" /\ Finished /\ ~FuncRaised
           /\ ~Mismatch /\ N0 >= 1) =>
          (pc = "raised" /\ exc = SingularError /\ ~result.has
              /\ invLog = <<Zeros(N0)>>)

C6_Witness ==
    /\ inp.func = "const" /\ inp.entry = "cov" /\ pc = "raised"
    /\ exc = SingularError /\ N0 = 2

\* C7: a bare scalar x0 with a scalar step h gives the 1x1 matrix
\* (f(x0+h) - 2 f(x0) + f(x0-h)) / h^2 from exactly the three evaluations at
\* x0+h, x0 and x0-h.
C7_ScalarPoint ==
    (inp.x.kind = "scalar" /\ inp.h.kind = "scalar" /\ inp.entry = "hess"
        /\ pc = "done") =>
        LET x0 == X0[1]
            hh == inp.h.val
        IN  /\ Len(log) = 3
            /\ log[1].pt = <<RAdd(x0, hh)>>
            /\ log[2].pt = <<x0>>
            /\ log[3].pt = <<RSub(x0, hh)>>
            /\ result.val =
                 <<<<DerivII(func(inp.func, <<RAdd(x0, hh)>>),
                             func(inp.func, <<x0>>),
                             func(inp.func, <<RSub(x0, hh)>>), hh)>>>>

\* C8: for every pair i < j the four evaluations are made, in order, at
\* (x_i+h_i, x_j+h_j), (x_i+h_i, x_j-h_j), (x_i-h_i, x_j+h_j),
\* (x_i-h_i, x_j-h_j), every other coordinate being that of the input point,
\* and the entry is (f1 - f2 - f3 + f4) / (4 h_i h_j).
C8_MixedStencil ==
    \A a \in 0..(ndim - 1) : \A b \in (a + 1)..(ndim - 1) :
        LET o == EvalsBefore(a, b, ndim)
            p1 == Moved(a, StepOf(a), b, StepOf(b))
            p2 == Moved(a, StepOf(a), b, RNeg(StepOf(b)))
            p3 == Moved(a, RNeg(StepOf(a)), b, StepOf(b))
            p4 == Moved(a, RNeg(StepOf(a)), b, RNeg(StepOf(b)))
        IN  /\ Len(log) >= o + 1 => log[o + 1].pt = p1
            /\ Len(log) >= o + 2 => log[o + 2].pt = p2
            /\ Len(log) >= o + 3 => log[o + 3].pt = p3
            /\ Len(log) >= o + 4 => log[o + 4].pt = p4
            /\ (Len(log) >= o + 4 /\ ~FuncRaised) =>
                  hess[a + 1][b + 1] =
                      DerivIJ(func(inp.func, p1), func(inp.func, p2),
                              func(inp.func, p3), func(inp.func, p4),
                              StepOf(a), StepOf(b))

\* C9: a successful calc_hess on a point of dimension N calls func exactly
\* 3 N + 4 N (N-1) / 2 times, the unperturbed point being evaluated once per
\* diagonal entry, as the second call of that entry's stencil.
C9_EvaluationCount ==
    (HessReturned \/ pc = "ret") =>
        /\ Len(log) = TotalEvals(N0)
        /\ \A a \in 0..(N0 - 1) : log[EvalsBefore(a, a, N0) + 2].pt = X0
        /\ Cardinality({k \in 1..Len(log) : log[k].pt = X0}) >= N0

C9_Witness ==
    /\ pc = "done" /\ inp.entry = "hess" /\ N0 = 3 /\ Len(log) = 21

\* C10: an exception of the objective at its k-th evaluation ends the call:
\* it is the last evaluation, the same exception reaches the caller, the
\* inversion is not run and no matrix is returned; no failed call, a dimension
\* mismatch or a singular matrix included, returns a matrix.
C10_FailureAborts ==
    /\ FuncRaised =>
          /\ pc = "raised"
          /\ exc = FuncError
          /\ log[Len(log)].raised
          /\ \A k \in 1..(Len(log) - 1) : ~log[k].raised
          /\ invLog = <<>>
    /\ pc = "raised" => (~result.has /\ exc # NoExc)
    /\ pc = "done" => (result.has /\ exc = NoExc)

C10_Witness ==
    /\ FuncRaised /\ inp.entry = "cov" /\ Len(log) = 5 /\ pc = "raised"

====
